---- MODULE Spec2Model ----
(***************************************************************************)
(* Artifact integrity and signing pipeline of MegaEmu's automation         *)
(* scripts: scripts/manage_security.py (keys, hash, sign, verify) and      *)
(* scripts/manage_dist.py (the distribution gate in front of the publish   *)
(* channels).  Files on disk are the state; every command line handler is  *)
(* one action.                                                             *)
(***************************************************************************)
EXTENDS Integers, Sequences, FiniteSets, TLC

\* Bounds of the model.
MaxContent == 2
MaxKey == 2

Contents == 1..MaxContent
KeyIds == 1..MaxKey

\* A file that may be missing: <<>> when absent, <<x>> when it holds x.
NoFile == <<>>
File(x) == <<x>>
Exists(f) == f # <<>>
Read(f) == f[1]

(***************************************************************************)
(* Paths.  A path is kept as directory, stem and final suffix so that      *)
(* os.path.basename and str.endswith can be computed.                      *)
(***************************************************************************)
GameRom == [dir |-> "roms", name |-> "game", ext |-> ".rom"]
DemoTarGz == [dir |-> "", name |-> "demo.tar", ext |-> ".gz"]
SecPaths == {GameRom, DemoTarGz}

Basename(p) == [name |-> p.name, ext |-> p.ext]
SecBases == {Basename(p) : p \in SecPaths}

(***************************************************************************)
(* SECURITY_CONFIG                                                         *)
(***************************************************************************)
\* Mutant: the algorithm list the other way round.
Algorithms_Reversed == <<"sha512", "sha256">>
Algorithms == <<"sha256", "sha512">>
Extensions == {".exe", ".dll", ".so", ".dylib", ".rom"}
SaltLength == 64
CheckHashes == TRUE
CheckSignatures == TRUE

AlgSet == {Algorithms[i] : i \in 1..Len(Algorithms)}

(***************************************************************************)
(* Cryptographic primitives, idealised: a digest names the algorithm and   *)
(* the bytes it was computed over (no collisions), in raw or hex form; a   *)
(* signature names the private key, the signed message and the padding.    *)
(***************************************************************************)
RawDigest(alg, c) == [alg |-> alg, of |-> c, form |-> "raw"]
HexDigest(alg, c) == [alg |-> alg, of |-> c, form |-> "hex"]

SecPadding == [mgf |-> "sha512", salt |-> SaltLength, hash |-> "sha512"]

PrivateSign(key, msg, pad) == [key |-> key, msg |-> msg, pad |-> pad]
PublicVerify(pub, sig, msg, pad) ==
    /\ sig.key = pub
    /\ sig.msg = msg
    /\ sig.pad = pad

(***************************************************************************)
(* Verification outcomes.  The scripts return a boolean and print the      *)
(* reason; the outcome is named after the message printed.                 *)
(***************************************************************************)
Valid == [kind |-> "Valid", alg |-> ""]
HashMismatch(a) == [kind |-> "HashMismatch", alg |-> a]
SignatureInvalid == [kind |-> "SignatureInvalid", alg |-> ""]
MissingMetadata == [kind |-> "MissingMetadata", alg |-> ""]
Raised == [kind |-> "Error", alg |-> ""]
NoOutcome == [kind |-> "None", alg |-> ""]

Step(op, a) == [op |-> op, alg |-> a]

VARIABLES
    suite,      \* which script's files this run exercises
    artifact,   \* manage_security: path -> bytes of the file
    hashesDir,  \* security/hashes/<basename>.json
    sigDir,     \* security/signatures/<basename>.sig
    keyDir,     \* security/keys/rsa_private.pem, rsa_public.pem
    keyMode,    \* the permission bits of the two key files
    unreadable, \* manage_security: the paths open() fails on
    last,       \* manage_security: the last command run and what it returned
    rt,         \* history: progress of keys -> hash p -> sign p, per path
    cfg,        \* DIST_CONFIG['verification']
    built,      \* the package files present in package/dist
    pkgFile,    \* manage_dist: package -> bytes of the file
    digestFile, \* <package>.<algorithm>
    sigFile,    \* <package>.sig
    publicPem,  \* security/keys/public.pem
    pack,       \* manage_package: the create command that ran last
    gate,       \* the publish command in progress, or the last one run
    proc,       \* manage_security commands running side by side
    upd,        \* manage_update: the last command run and what it did
    backups     \* update/backup: the names of the backup_* directories

secState == <<artifact, hashesDir, sigDir, keyDir, keyMode, unreadable, last, rt>>
distState == <<cfg, built, pkgFile, digestFile, sigFile, publicPem, pack, gate>>
moreState == <<proc, upd, backups>>
vars == <<suite, secState, distState, moreState>>

\* What a call comes back with: a value, or an exception that leaves it.
Returned(v) == [raised |-> FALSE, value |-> <<v>>]
RaisedOut == [raised |-> TRUE, value |-> <<>>]
NoCall == [raised |-> FALSE, value |-> <<>>]

Idle == [cmd |-> "none", path |-> GameRom, exit |-> 0, outcome |-> NoOutcome,
         steps |-> <<>>, call |-> NoCall]

\* No create command of manage_package has run since the files last changed.
NoPack == [cmd |-> "none", pkg |-> <<>>, exit |-> 0, signed |-> <<>>,
           bytes |-> 0, key |-> 0]

\* No commands running side by side.
NoProcs == <<>>

\* No command of manage_update has run.
UpdIdle == [cmd |-> "none", trace |-> <<>>, exit |-> 0, made |-> <<>>,
            removed |-> {}, package |-> <<>>, verdict |-> <<>>]

Min(a, b) == IF a < b THEN a ELSE b

(***************************************************************************)
(* manage_security.py                                                      *)
(***************************************************************************)
\* Mutant: every file is checked, whatever its name ends with.
HasCoveredExtension_AnyName(p) == TRUE

HasCoveredExtension(p) == \E e \in Extensions : p.ext = e

\* A file opened for reading, and what reading it to the end returns: all
\* its bytes the first time, nothing (0) after that.
Open(c) == [bytes |-> c, at |-> "start"]
ReadAll(h) == IF h.at = "start" THEN h.bytes ELSE 0
EmptyDict == [a \in {} |-> a]

RECURSIVE Reverse(_)
Reverse(seq) ==
    IF seq = <<>> THEN <<>> ELSE Append(Reverse(Tail(seq)), Head(seq))

\* Mutant: the file is opened once, before the loop over the algorithms, so
\* only the first algorithm sees its bytes.
HashesIn_SharedHandle(order, c) ==
    [a \in {order[i] : i \in 1..Len(order)} |->
        IF a = order[1] THEN HexDigest(a, c) ELSE HexDigest(a, 0)]

\* The loop of calculate_hashes over the algorithms in the given order: each
\* algorithm opens the file again and reads it to the end.
RECURSIVE HashesIn(_, _)
HashesIn(order, c) ==
    IF order = <<>> THEN EmptyDict
    ELSE LET algorithm == Head(order) IN
         (algorithm :> HexDigest(algorithm, ReadAll(Open(c))))
             @@ HashesIn(Tail(order), c)

CalculateHashes(c) == HashesIn(Algorithms, c)

\* calculate_hashes(path): the body of its try block, and the call with its
\* handler, which answers any exception with the empty dict.
CalculateHashesBody(p) ==
    IF p \in unreadable THEN RaisedOut
    ELSE Returned(CalculateHashes(artifact[p]))

\* Mutant: calculate_hashes without its handler.
CalculateHashesCall_NoHandler(p) == CalculateHashesBody(p)

CalculateHashesCall(p) ==
    IF CalculateHashesBody(p).raised THEN Returned(EmptyDict)
    ELSE CalculateHashesBody(p)

\* Mutant: the SHA-256 digest is signed.
SignFile_Sha256Digest(p) ==
    IF keyDir.private = 0 \/ p \in unreadable THEN NoFile
    ELSE File(PrivateSign(keyDir.private, RawDigest("sha256", artifact[p]),
                          SecPadding))

\* Mutant: the digest stored by the hash command is signed instead of one
\* computed from the file.
SignFile_StoredDigest(p) ==
    IF keyDir.private = 0 \/ p \in unreadable THEN NoFile
    ELSE IF hashesDir[Basename(p)] = NoFile THEN NoFile
    ELSE File(PrivateSign(keyDir.private,
                          RawDigest("sha512",
                                    Read(hashesDir[Basename(p)])["sha512"].of),
                          SecPadding))

\* sign_file: the private key must load and the file must be readable; the
\* SHA-512 digest of the file is signed with PSS.  Any exception is answered
\* with None.
SignFile(p) ==
    IF keyDir.private = 0 \/ p \in unreadable THEN NoFile
    ELSE File(PrivateSign(keyDir.private, RawDigest("sha512", artifact[p]),
                          SecPadding))

\* The comparison loop of verify_file, from algorithm i on.
RECURSIVE CompareHashes(_, _, _)
CompareHashes(i, saved, current) ==
    IF i > Len(Algorithms) THEN [steps |-> <<>>, out |-> Valid]
    ELSE LET a == Algorithms[i] IN
         IF a \notin DOMAIN saved THEN [steps |-> <<>>, out |-> MissingMetadata]
         ELSE IF a \notin DOMAIN current THEN [steps |-> <<>>, out |-> Raised]
         ELSE IF saved[a] # current[a]
              THEN [steps |-> <<Step("compare", a)>>, out |-> HashMismatch(a)]
              ELSE LET r == CompareHashes(i + 1, saved, current) IN
                   [steps |-> <<Step("compare", a)>> \o r.steps, out |-> r.out]

\* Mutant: the current hashes are computed before the stored ones are
\* looked for.
CheckHashesPart_ComputeFirst(p) ==
    IF hashesDir[Basename(p)] = NoFile
    THEN [steps |-> <<Step("calculate_hashes", "")>>, out |-> MissingMetadata]
    ELSE LET r == CompareHashes(1, Read(hashesDir[Basename(p)]),
                                CalculateHashes(artifact[p])) IN
         [steps |-> <<Step("calculate_hashes", ""), Step("load_hashes", "")>>
                    \o r.steps,
          out |-> r.out]

CheckHashesPart(p) ==
    IF ~CheckHashes THEN [steps |-> <<>>, out |-> Valid]
    ELSE IF hashesDir[Basename(p)] = NoFile
         THEN [steps |-> <<>>, out |-> MissingMetadata]
         ELSE LET current == CalculateHashesCall(p)
                  here == <<Step("load_hashes", ""), Step("calculate_hashes", "")>>
              IN  IF current.raised THEN [steps |-> here, out |-> Raised]
                  ELSE LET r == CompareHashes(1, Read(hashesDir[Basename(p)]),
                                              Read(current.value)) IN
                       [steps |-> here \o r.steps, out |-> r.out]

\* Mutant: the exception of public_key.verify is swallowed.
CheckSignaturePart_IgnoreInvalid(p) ==
    IF keyDir.public = 0 THEN [steps |-> <<>>, out |-> Raised]
    ELSE IF sigDir[Basename(p)] = NoFile
         THEN [steps |-> <<Step("load_public_key", "")>>,
               out |-> MissingMetadata]
         ELSE [steps |-> <<Step("load_public_key", ""),
                           Step("load_signature", ""),
                           Step("digest", "sha512"),
                           Step("verify_signature", "")>>,
               out |-> Valid]

CheckSignaturePart(p) ==
    IF ~CheckSignatures THEN [steps |-> <<>>, out |-> Valid]
    ELSE IF keyDir.public = 0
         THEN [steps |-> <<>>, out |-> Raised]
         ELSE IF sigDir[Basename(p)] = NoFile
              THEN [steps |-> <<Step("load_public_key", "")>>,
                    out |-> MissingMetadata]
              ELSE IF p \in unreadable
              THEN [steps |-> <<Step("load_public_key", ""),
                                Step("load_signature", "")>>,
                    out |-> Raised]
              ELSE [steps |-> <<Step("load_public_key", ""),
                                Step("load_signature", ""),
                                Step("digest", "sha512"),
                                Step("verify_signature", "")>>,
                    out |-> IF PublicVerify(keyDir.public, Read(sigDir[Basename(p)]),
                                            RawDigest("sha512", artifact[p]),
                                            SecPadding)
                            THEN Valid ELSE SignatureInvalid]

\* Mutant: a failed hash check does not return; the signature is checked
\* all the same.
VerifyFile_NoShortCircuit(p) ==
    IF ~HasCoveredExtension(p) THEN [steps |-> <<>>, out |-> Valid]
    ELSE LET h == CheckHashesPart(p)
             s == CheckSignaturePart(p)
         IN  [steps |-> h.steps \o s.steps,
              out |-> IF h.out # Valid THEN h.out ELSE s.out]

VerifyFile(p) ==
    IF ~HasCoveredExtension(p) THEN [steps |-> <<>>, out |-> Valid]
    ELSE LET h == CheckHashesPart(p) IN
         IF h.out # Valid THEN h
         ELSE LET s == CheckSignaturePart(p) IN
              [steps |-> h.steps \o s.steps, out |-> s.out]

\* verify_file(path) as main sees it: the handler around the body answers
\* any exception with False.
VerifyFileCall_NoHandler(p) ==
    IF VerifyFile(p).out = Raised THEN RaisedOut
    ELSE Returned(VerifyFile(p).out = Valid)

\* Mutant: the handler answers an exception with True.
VerifyFileCall_ErrorIsTrue(p) == Returned(VerifyFile(p).out \in {Valid, Raised})

VerifyFileCall(p) == Returned(VerifyFile(p).out = Valid)

\* generate_keys writes and chmods the private key, the public key and the
\* AES key, in this order; an exception at any of these stops it there.
KeyStages == <<"write_private", "chmod_private", "write_public",
               "chmod_public", "write_aes", "chmod_aes">>
KeyFailures == {KeyStages[i] : i \in 1..Len(KeyStages)} \cup {"none"}
StagesDone(failAt) ==
    IF failAt = "none" THEN Len(KeyStages)
    ELSE (CHOOSE i \in 1..Len(KeyStages) : KeyStages[i] = failAt) - 1

\* The permission bits a process's umask leaves to a file that open() creates.
CreatedModes == {"0600", "0644", "0666"}
PrivateMode == "0600"
PublicMode == "0644"

\* open(path, 'wb') creates a missing file with the bits the umask leaves and
\* keeps the bits of an existing one.
ModeAfterOpen(old, created) == IF old = "none" THEN created ELSE old

Max(a, b) == IF a > b THEN a ELSE b

\* Mutant: the private key is not chmod-ed after it is written.
KeysAfter_NoPrivateChmod(failAt, created) ==
    LET done == StagesDone(failAt)
        fresh == Max(keyDir.private, keyDir.public) + 1
    IN  [dir |-> [private |-> IF done >= 1 THEN fresh ELSE keyDir.private,
                  public |-> IF done >= 3 THEN fresh ELSE keyDir.public],
         mode |-> [private |-> IF done >= 1
                               THEN ModeAfterOpen(keyMode.private, created)
                               ELSE keyMode.private,
                   public |-> IF done >= 4 THEN PublicMode
                              ELSE IF done >= 3
                                   THEN ModeAfterOpen(keyMode.public, created)
                                   ELSE keyMode.public]]

\* The key files generate_keys leaves when it stops at failAt.
KeysAfter(failAt, created) ==
    LET done == StagesDone(failAt)
        fresh == Max(keyDir.private, keyDir.public) + 1
    IN  [dir |-> [private |-> IF done >= 1 THEN fresh ELSE keyDir.private,
                  public |-> IF done >= 3 THEN fresh ELSE keyDir.public],
         mode |-> [private |-> IF done >= 2 THEN PrivateMode
                               ELSE IF done >= 1
                                    THEN ModeAfterOpen(keyMode.private, created)
                                    ELSE keyMode.private,
                   public |-> IF done >= 4 THEN PublicMode
                              ELSE IF done >= 3
                                   THEN ModeAfterOpen(keyMode.public, created)
                                   ELSE keyMode.public]]

\* keys: a fresh pair replaces whatever is persisted; the command returns 1
\* when generate_keys caught an exception.
GenerateKeysAt(failAt, created) ==
    /\ suite = "security"
    /\ Max(keyDir.private, keyDir.public) < MaxKey
    /\ keyDir' = KeysAfter(failAt, created).dir
    /\ keyMode' = KeysAfter(failAt, created).mode
    /\ last' = [Idle EXCEPT !.cmd = "keys",
                            !.exit = IF failAt = "none" THEN 0 ELSE 1,
                            !.call = Returned(failAt = "none")]
    /\ rt' = [p \in SecPaths |-> IF failAt = "none" THEN 1 ELSE 0]
    /\ UNCHANGED <<suite, artifact, hashesDir, sigDir, unreadable, distState, moreState>>

\* keys, with every write and chmod succeeding.
GenerateKeys == \E created \in CreatedModes : GenerateKeysAt("none", created)

\* Mutant: the hash command reports the digests without writing them.
CmdHash_NoDump(p) ==
    /\ suite = "security"
    /\ LET hashes == CalculateHashesCall(p) IN
       last' = [Idle EXCEPT !.cmd = "hash", !.path = p,
                            !.exit = IF hashes.raised
                                        \/ DOMAIN Read(hashes.value) = {}
                                     THEN 1 ELSE 0,
                            !.call = hashes]
    /\ UNCHANGED <<suite, artifact, hashesDir, sigDir, keyDir, keyMode,
                   unreadable, rt, distState, moreState>>

\* hash <file>: nothing is stored when calculate_hashes came back empty.
CmdHash(p) ==
    /\ suite = "security"
    /\ LET hashes == CalculateHashesCall(p) IN
       IF hashes.raised \/ DOMAIN Read(hashes.value) = {}
       THEN /\ last' = [Idle EXCEPT !.cmd = "hash", !.path = p, !.exit = 1,
                                    !.call = hashes]
            /\ UNCHANGED <<hashesDir, rt>>
       ELSE /\ hashesDir' = [hashesDir EXCEPT ![Basename(p)] = hashes.value]
            /\ last' = [Idle EXCEPT !.cmd = "hash", !.path = p,
                                    !.call = hashes]
            /\ rt' = [q \in SecPaths |->
                        IF q = p THEN (IF rt[p] >= 1 THEN 2 ELSE 0)
                        ELSE IF Basename(q) = Basename(p) THEN Min(rt[q], 1)
                        ELSE rt[q]]
    /\ UNCHANGED <<suite, artifact, sigDir, keyDir, keyMode, unreadable,
                   distState, moreState>>

\* Mutant: the signature file is opened for writing before signing, so a
\* failed sign leaves it empty.
CmdSign_OpenFirst(p) ==
    /\ suite = "security"
    /\ LET signature == SignFile(p) IN
       /\ sigDir' = [sigDir EXCEPT ![Basename(p)] = signature]
       /\ IF signature = NoFile
          THEN /\ last' = [Idle EXCEPT !.cmd = "sign", !.path = p, !.exit = 1]
               /\ UNCHANGED rt
          ELSE /\ last' = [Idle EXCEPT !.cmd = "sign", !.path = p,
                                       !.call = Returned(Read(signature))]
               /\ rt' = [q \in SecPaths |->
                           IF q = p THEN (IF rt[p] >= 2 THEN 3 ELSE rt[p])
                           ELSE IF Basename(q) = Basename(p) THEN Min(rt[q], 1)
                           ELSE rt[q]]
    /\ UNCHANGED <<suite, artifact, hashesDir, keyDir, keyMode, unreadable,
                   distState, moreState>>

\* sign <file>
CmdSign(p) ==
    /\ suite = "security"
    /\ LET signature == SignFile(p) IN
       IF signature = NoFile
       THEN /\ last' = [Idle EXCEPT !.cmd = "sign", !.path = p, !.exit = 1]
            /\ UNCHANGED <<sigDir, rt>>
       ELSE /\ sigDir' = [sigDir EXCEPT ![Basename(p)] = signature]
            /\ last' = [Idle EXCEPT !.cmd = "sign", !.path = p,
                                    !.call = Returned(Read(signature))]
            /\ rt' = [q \in SecPaths |->
                        IF q = p THEN (IF rt[p] >= 2 THEN 3 ELSE rt[p])
                        ELSE IF Basename(q) = Basename(p) THEN Min(rt[q], 1)
                        ELSE rt[q]]
    /\ UNCHANGED <<suite, artifact, hashesDir, keyDir, keyMode, unreadable,
                   distState, moreState>>

\* Mutant: verify stores the digests it computed.
CmdVerify_StoreDigests(p) ==
    /\ suite = "security"
    /\ LET r == VerifyFile(p)
           call == VerifyFileCall(p)
       IN  last' = [cmd |-> "verify", path |-> p,
                    exit |-> IF ~call.raised /\ Read(call.value) THEN 0 ELSE 1,
                    outcome |-> r.out, steps |-> r.steps, call |-> call]
    /\ hashesDir' = [hashesDir EXCEPT ![Basename(p)] =
                                     CalculateHashesCall(p).value]
    /\ UNCHANGED <<suite, artifact, sigDir, keyDir, keyMode, unreadable,
                   rt, distState, moreState>>

\* verify <file>
CmdVerify(p) ==
    /\ suite = "security"
    /\ LET r == VerifyFile(p)
           call == VerifyFileCall(p)
       IN  last' = [cmd |-> "verify", path |-> p,
                    exit |-> IF ~call.raised /\ Read(call.value) THEN 0 ELSE 1,
                    outcome |-> r.out, steps |-> r.steps, call |-> call]
    /\ UNCHANGED <<suite, artifact, hashesDir, sigDir, keyDir, keyMode,
                   unreadable, rt, distState, moreState>>

\* A path that names no file, and a command line without a path.
GhostRom == [dir |-> "roms", name |-> "ghost", ext |-> ".rom"]
NoArgument == [dir |-> "", name |-> "", ext |-> ""]
BadPaths == {GhostRom, NoArgument}

\* hash, sign or verify without a path, or with a path that is no file:
\* main returns 1 before it calls anything.
CmdBadPath(command, p) ==
    /\ suite = "security"
    /\ command \in {"hash", "sign", "verify"}
    /\ p \in BadPaths
    /\ last' = [Idle EXCEPT !.cmd = command, !.path = p, !.exit = 1]
    /\ UNCHANGED <<suite, artifact, hashesDir, sigDir, keyDir, keyMode,
                   unreadable, rt, distState, moreState>>

\* Another process (the build) rewrites an artifact.
ModifyArtifact(p, c) ==
    /\ suite = "security"
    /\ c # artifact[p]
    /\ artifact' = [artifact EXCEPT ![p] = c]
    /\ last' = Idle
    /\ rt' = [rt EXCEPT ![p] = Min(rt[p], 1)]
    /\ UNCHANGED <<suite, hashesDir, sigDir, keyDir, keyMode, unreadable,
                   distState, moreState>>

\* The surroundings of manage_security.py: an artifact is made unreadable or
\* readable again, the private key file is removed, the permission bits of
\* a key file are changed.
SetReadable(p, readable) ==
    /\ suite = "security"
    /\ readable = (p \in unreadable)
    /\ unreadable' = IF readable THEN unreadable \ {p} ELSE unreadable \cup {p}
    /\ last' = Idle
    /\ rt' = [rt EXCEPT ![p] = Min(rt[p], 1)]
    /\ UNCHANGED <<suite, artifact, hashesDir, sigDir, keyDir, keyMode,
                   distState, moreState>>

RemovePrivateKey ==
    /\ suite = "security"
    /\ keyDir.private # 0
    /\ keyDir' = [keyDir EXCEPT !.private = 0]
    /\ keyMode' = [keyMode EXCEPT !.private = "none"]
    /\ last' = Idle
    /\ rt' = [p \in SecPaths |-> 0]
    /\ UNCHANGED <<suite, artifact, hashesDir, sigDir, unreadable, distState, moreState>>

ChmodKey(file, mode) ==
    /\ suite = "security"
    /\ keyMode[file] \notin {"none", mode}
    /\ keyMode' = [keyMode EXCEPT ![file] = mode]
    /\ last' = Idle
    /\ UNCHANGED <<suite, artifact, hashesDir, sigDir, keyDir, unreadable, rt,
                   distState, moreState>>

(***************************************************************************)
(* manage_dist.py                                                          *)
(***************************************************************************)
SetupExe == [dir |-> "package/dist", name |-> "setup", ext |-> ".exe"]
EmuDeb == [dir |-> "package/dist", name |-> "emu", ext |-> ".deb"]

\* collect_packages walks the platforms in the order of DIST_CONFIG['packages'].
PkgOrder == <<SetupExe, EmuDeb>>
Pkgs == {PkgOrder[i] : i \in 1..Len(PkgOrder)}

DistAlgorithms == <<"sha256", "sha512">>
Channels == <<"github", "sourceforge", "itch">>
ChannelSet == {Channels[i] : i \in 1..Len(Channels)}
Platforms == ChannelSet \cup {"all"}

\* 4096-bit modulus; PSS.MAX_LENGTH is the modulus length less the digest
\* length less two, in bytes.
RsaKeySize == 4096
Sha256Bytes == 32
PssMaxLength == (RsaKeySize \div 8) - Sha256Bytes - 2
DistPadding == [mgf |-> "sha256", salt |-> PssMaxLength, hash |-> "sha256"]

\* "<hex-digest> <file name>": the text of a digest file, and its first word.
DigestLine(hex, p) == <<hex, Basename(p)>>
FirstWord(line) == line[1]

\* The text of a signature file and its decoding.
B64Encode(sig) == [b64 |-> sig]
B64Decode(text) == text.b64

CollectPackages == SelectSeq(PkgOrder, LAMBDA p : p \in built)

\* The dict collect_packages returns: a key for every platform of
\* DIST_CONFIG['packages'], with the list of the files found for it.
PackagePlatforms == {"windows", "linux", "macos"}
PlatformOf(p) ==
    IF p.ext = ".exe" THEN "windows"
    ELSE IF p.ext = ".deb" THEN "linux"
    ELSE "macos"

\* Mutant: a platform gets a key only when a file was found for it.
CollectByPlatform_OnlyFound ==
    [pl \in {PlatformOf(p) : p \in built} |->
        SelectSeq(PkgOrder, LAMBDA p : p \in built /\ PlatformOf(p) = pl)]

CollectByPlatform ==
    [pl \in PackagePlatforms |->
        SelectSeq(PkgOrder, LAMBDA p : p \in built /\ PlatformOf(p) = pl)]

\* Python's truth value of a dict.
Truthy(dict) == DOMAIN dict # {}

\* The loop over the algorithms of verify_packages for one package, from
\* algorithm i on; expected is the value of expected_hash so far.
RECURSIVE CheckDigestFiles(_, _, _)
CheckDigestFiles(i, p, expected) ==
    IF i > Len(DistAlgorithms)
    THEN [steps |-> <<>>, out |-> Valid, expected |-> expected]
    ELSE LET a == DistAlgorithms[i] IN
         IF ~Exists(digestFile[p][a])
         THEN [steps |-> <<>>, out |-> MissingMetadata, expected |-> expected]
         ELSE LET expected_hash == FirstWord(Read(digestFile[p][a]))
                  actual_hash == HexDigest(a, pkgFile[p])
                  here == <<Step("load_hash", a), Step("digest", a),
                            Step("compare", a)>>
              IN  IF actual_hash # expected_hash
                  THEN [steps |-> here, out |-> HashMismatch(a),
                        expected |-> expected_hash]
                  ELSE LET r == CheckDigestFiles(i + 1, p, expected_hash) IN
                       [steps |-> here \o r.steps, out |-> r.out,
                        expected |-> r.expected]

\* Mutant: a missing signature file is reported as an invalid signature.
CheckSigFile_MissingAsInvalid(p, expected_hash) ==
    IF ~Exists(sigFile[p]) THEN [steps |-> <<>>, out |-> SignatureInvalid]
    ELSE IF publicPem = 0
         THEN [steps |-> <<Step("load_signature", "")>>, out |-> Raised]
         ELSE [steps |-> <<Step("load_signature", ""),
                           Step("load_public_key", ""),
                           Step("verify_signature", "")>>,
               out |-> IF PublicVerify(publicPem, B64Decode(Read(sigFile[p])),
                                       expected_hash, DistPadding)
                       THEN Valid ELSE SignatureInvalid]

\* The signature part of verify_packages for one package.
CheckSigFile(p, expected_hash) ==
    IF ~cfg.signature THEN [steps |-> <<>>, out |-> Valid]
    ELSE IF ~Exists(sigFile[p]) THEN [steps |-> <<>>, out |-> MissingMetadata]
    ELSE IF publicPem = 0
         THEN [steps |-> <<Step("load_signature", "")>>, out |-> Raised]
         ELSE [steps |-> <<Step("load_signature", ""),
                           Step("load_public_key", ""),
                           Step("verify_signature", "")>>,
               out |-> IF PublicVerify(publicPem, B64Decode(Read(sigFile[p])),
                                       expected_hash, DistPadding)
                       THEN Valid ELSE SignatureInvalid]

VerifyPackage(p) ==
    LET h == CheckDigestFiles(1, p, HexDigest("", 0)) IN
    IF h.out # Valid THEN [steps |-> h.steps, out |-> h.out]
    ELSE LET s == CheckSigFile(p, h.expected) IN
         [steps |-> h.steps \o s.steps, out |-> s.out]

\* Mutant: the loop returns True after its first package.
VerifyFrom_OnlyFirst(i, batch) ==
    IF i > Len(batch) THEN <<>>
    ELSE LET r == VerifyPackage(batch[i]) IN
         <<[pkg |-> batch[i], out |-> r.out, steps |-> r.steps]>>

\* Mutant: a failure does not return; every package is looked at.
RECURSIVE VerifyFrom_CollectAll(_, _)
VerifyFrom_CollectAll(i, batch) ==
    IF i > Len(batch) THEN <<>>
    ELSE LET r == VerifyPackage(batch[i]) IN
         <<[pkg |-> batch[i], out |-> r.out, steps |-> r.steps]>>
             \o VerifyFrom_CollectAll(i + 1, batch)

\* verify_packages: one result per package looked at; the first failure
\* returns.
RECURSIVE VerifyFrom(_, _)
VerifyFrom(i, batch) ==
    IF i > Len(batch) THEN <<>>
    ELSE LET r == VerifyPackage(batch[i])
             res == [pkg |-> batch[i], out |-> r.out, steps |-> r.steps]
         IN  IF r.out # Valid THEN <<res>>
             ELSE <<res>> \o VerifyFrom(i + 1, batch)

VerifyPackages(batch) ==
    IF ~cfg.enabled THEN <<>> ELSE VerifyFrom(1, batch)

\* Mutant: only the first result is looked at.
AllValid_FirstOnly(results) == results = <<>> \/ results[1].out = Valid

AllValid(results) == \A i \in 1..Len(results) : results[i].out = Valid

\* Mutant: verify_packages without its handler.
VerifyPackagesCall_NoHandler(results) ==
    IF \E i \in 1..Len(results) : results[i].out = Raised THEN RaisedOut
    ELSE Returned(AllValid(results))

\* verify_packages(packages) as main sees it: the handler around the body
\* answers any exception with False.
VerifyPackagesCall(results) == Returned(AllValid(results))

\* The channels main calls for a platform argument, in the order of its ifs.
Requested(platform) ==
    SelectSeq(Channels, LAMBDA ch : platform = ch \/ platform = "all")

NoUploads == [ch \in ChannelSet |-> {}]

\* What is on disk for package p: its bytes, its digest files and its
\* signature file.
Bundle(p) ==
    [bytes |-> pkgFile[p], digests |-> digestFile[p], sig |-> sigFile[p]]

\* The gate keeps, for the claims about it, what verify_packages read of
\* each package it passed (checked) and what each publish function read
\* and sent (wire).
GateIdle == [pc |-> "idle", batch |-> <<>>, results |-> <<>>,
             requested |-> <<>>, calls |-> <<>>, uploaded |-> NoUploads,
             exit |-> 0, call |-> NoCall, checked |-> EmptyDict, wire |-> {}]

GateQuiet == gate.pc \in {"idle", "done"}

\* publish <platform>, up to the return of verify_packages: a failure
\* returns 1, otherwise the publish calls of the platform follow.
GateVerify(platform) ==
    /\ suite = "dist"
    /\ GateQuiet
    /\ LET packages == CollectPackages
           results == VerifyPackages(packages)
       IN  gate' = IF ~Truthy(CollectByPlatform)
                   THEN [GateIdle EXCEPT !.pc = "done", !.exit = 1]
                   ELSE
                   [pc |-> IF AllValid(results) THEN "publish" ELSE "done",
                    batch |-> packages,
                    results |-> results,
                    requested |-> IF AllValid(results) THEN Requested(platform)
                                  ELSE <<>>,
                    calls |-> <<>>,
                    uploaded |-> NoUploads,
                    exit |-> IF AllValid(results) THEN 0 ELSE 1,
                    call |-> VerifyPackagesCall(results),
                    checked |-> IF AllValid(results)
                                THEN [p \in {results[i].pkg :
                                                i \in 1..Len(results)} |->
                                         Bundle(p)]
                                ELSE EmptyDict,
                    wire |-> {}]
    /\ pack' = NoPack
    /\ UNCHANGED <<suite, secState, moreState, cfg, built, pkgFile, digestFile, sigFile,
                   publicPem>>

\* The packages of the batch a publish function has sent when it returns:
\* the first k of them.
Sent(batch, k) == {batch[i] : i \in 1..k}

\* Mutant: a failed channel takes back what the channels before it published.
AfterCall_Rollback(g, ch, ok, sent) ==
    LET calls == Append(g.calls, [channel |-> ch, ok |-> ok])
        finished == ~ok \/ Len(calls) = Len(g.requested)
    IN  [g EXCEPT !.calls = calls,
                  !.uploaded = IF ok THEN [@ EXCEPT ![ch] = @ \cup sent]
                               ELSE NoUploads,
                  !.pc = IF finished THEN "done" ELSE "publish",
                  !.exit = IF ok THEN 0 ELSE 1]

\* What main does with the return value of a publish function: a failure
\* returns 1, a success goes on to the next requested channel.
AfterCall(g, ch, ok, sent) ==
    LET calls == Append(g.calls, [channel |-> ch, ok |-> ok])
        finished == ~ok \/ Len(calls) = Len(g.requested)
    IN  [g EXCEPT !.calls = calls,
                  !.uploaded[ch] = @ \cup sent,
                  !.wire = @ \cup {[channel |-> ch, pkg |-> p,
                                    bundle |-> Bundle(p)] : p \in sent},
                  !.pc = IF finished THEN "done" ELSE "publish",
                  !.exit = IF ok THEN 0 ELSE 1]

\* publish <platform>: the next requested publish_<channel> call.  The call
\* succeeds after sending every package, or stops at a failure having sent
\* some of them.
GatePublish(ok, k) ==
    /\ suite = "dist"
    /\ gate.pc = "publish"
    /\ k \in 0..Len(gate.batch)
    /\ ok => k = Len(gate.batch)
    /\ gate' = AfterCall(gate, gate.requested[Len(gate.calls) + 1], ok,
                         Sent(gate.batch, k))
    /\ UNCHANGED <<suite, secState, moreState, cfg, built, pkgFile, digestFile, sigFile,
                   publicPem, pack>>

\* The surroundings of manage_dist.py: the packaging stage rebuilds a
\* package, digest and signature files are written or removed next to it,
\* and the public key is installed or removed.
RebuildPackage(p, c) ==
    /\ suite = "dist"
    /\ GateQuiet
    /\ p \in built
    /\ c # pkgFile[p]
    /\ pkgFile' = [pkgFile EXCEPT ![p] = c]
    /\ gate' = GateIdle
    /\ pack' = NoPack
    /\ UNCHANGED <<suite, secState, moreState, cfg, built, digestFile, sigFile, publicPem>>

DigestFileValues(p, a) ==
    {NoFile} \cup {File(DigestLine(HexDigest(a, c), p)) : c \in Contents}

WriteDigestFile(p, a, f) ==
    /\ suite = "dist"
    /\ GateQuiet
    /\ p \in built
    /\ f # digestFile[p][a]
    /\ digestFile' = [digestFile EXCEPT ![p][a] = f]
    /\ gate' = GateIdle
    /\ pack' = NoPack
    /\ UNCHANGED <<suite, secState, moreState, cfg, built, pkgFile, sigFile, publicPem>>

SigFileValues ==
    {NoFile} \cup
    {File(B64Encode(PrivateSign(k, HexDigest("sha512", c), DistPadding))) :
        k \in KeyIds, c \in Contents}

WriteSigFile(p, f) ==
    /\ suite = "dist"
    /\ GateQuiet
    /\ p \in built
    /\ f # sigFile[p]
    /\ sigFile' = [sigFile EXCEPT ![p] = f]
    /\ gate' = GateIdle
    /\ pack' = NoPack
    /\ UNCHANGED <<suite, secState, moreState, cfg, built, pkgFile, digestFile, publicPem>>

WritePublicPem(k) ==
    /\ suite = "dist"
    /\ GateQuiet
    /\ k # publicPem
    /\ publicPem' = k
    /\ gate' = GateIdle
    /\ pack' = NoPack
    /\ UNCHANGED <<suite, secState, moreState, cfg, built, pkgFile, digestFile, sigFile>>

(***************************************************************************)
(* manage_package.py: create <format> builds a package in package/dist and *)
(* calls verify_package on it, which writes the digest files and the       *)
(* signature of the package.                                               *)
(***************************************************************************)
PackageAlgorithms == <<"sha256", "sha512">>
PackageCfg == [enabled |-> TRUE, signature |-> TRUE]
PackagePadding == [mgf |-> "sha256", salt |-> PssMaxLength, hash |-> "sha256"]

\* Mutant: the module is imported under a name of its own.
HashesBinding_OwnName(signature) == "dict"

\* What the local name hashes of verify_package is bound to when the
\* signature is made: line 499 binds it to the dict of digests, the import
\* of cryptography's hashes module at line 516 binds it again.
HashesBinding(signature) == IF signature THEN "module" ELSE "dict"

\* The digest files verify_package writes for package p holding bytes c.
PackageDigestFiles(p, c) ==
    [a \in {PackageAlgorithms[i] : i \in 1..Len(PackageAlgorithms)} |->
        File(DigestLine(HexDigest(a, c), p))]

\* The signature part of verify_package: the text written to <package>.sig,
\* or the exception that ends it.  security/keys/private.pem holds key
\* privatePem (0: no such file); hashes['sha256'] needs hashes to be the dict.
PackageSignature(c, privatePem) ==
    IF ~PackageCfg.signature THEN NoCall
    ELSE IF privatePem = 0 THEN RaisedOut
    ELSE IF HashesBinding(PackageCfg.signature) # "dict" THEN RaisedOut
    ELSE Returned(B64Encode(PrivateSign(privatePem, HexDigest("sha256", c),
                                        PackagePadding)))

\* create <format>: package p is built with bytes c, then verify_package
\* runs on it.
CreatePackage(p, c, privatePem) ==
    /\ suite = "dist"
    /\ GateQuiet
    /\ PackageCfg.enabled
    /\ built' = built \cup {p}
    /\ pkgFile' = [pkgFile EXCEPT ![p] = c]
    /\ digestFile' = [digestFile EXCEPT ![p] = PackageDigestFiles(p, c)]
    /\ LET signature == PackageSignature(c, privatePem) IN
       /\ sigFile' = IF signature.value = <<>> THEN sigFile
                     ELSE [sigFile EXCEPT ![p] = signature.value]
       /\ pack' = [cmd |-> "create", pkg |-> <<p>>,
                   exit |-> IF signature.raised THEN 1 ELSE 0,
                   signed |-> signature.value, bytes |-> c,
                   key |-> privatePem]
    /\ gate' = GateIdle
    /\ UNCHANGED <<suite, secState, moreState, cfg, publicPem>>

\* Another process rewrites a package file while a publish command is
\* between its verification pass and the end of its publish calls.
TamperInFlight(p, c) ==
    /\ suite = "dist"
    /\ gate.pc = "publish"
    /\ p \in built
    /\ c # pkgFile[p]
    /\ pkgFile' = [pkgFile EXCEPT ![p] = c]
    /\ UNCHANGED <<suite, secState, moreState, cfg, built, digestFile, sigFile, publicPem,
                   pack, gate>>

(***************************************************************************)
(* Specifications                                                          *)
(***************************************************************************)
DistAlgSet == {DistAlgorithms[i] : i \in 1..Len(DistAlgorithms)}

SecFresh ==
    /\ hashesDir = [b \in SecBases |-> NoFile]
    /\ sigDir = [b \in SecBases |-> NoFile]
    /\ keyDir = [private |-> 0, public |-> 0]
    /\ keyMode = [private |-> "none", public |-> "none"]
    /\ unreadable = {}
    /\ last = Idle
    /\ rt = [p \in SecPaths |-> 0]

MoreFresh ==
    /\ proc = NoProcs
    /\ upd = UpdIdle
    /\ backups = {}

DistFresh ==
    /\ pkgFile = [p \in Pkgs |-> 1]
    /\ digestFile = [p \in Pkgs |-> [a \in DistAlgSet |-> NoFile]]
    /\ sigFile = [p \in Pkgs |-> NoFile]
    /\ publicPem = 0
    /\ pack = NoPack
    /\ gate = GateIdle

\* The verification switches as DIST_CONFIG ships them.
ShippedCfg == [enabled |-> TRUE, signature |-> TRUE]

Init ==
    /\ SecFresh
    /\ MoreFresh
    /\ DistFresh
    /\ cfg = ShippedCfg
    /\ \/ /\ suite = "security"
          /\ artifact \in [SecPaths -> Contents]
          /\ built = {}
       \/ /\ suite = "dist"
          /\ artifact = [p \in SecPaths |-> 1]
          /\ built \in SUBSET Pkgs

NextSec ==
    \/ GenerateKeys
    \/ \E p \in SecPaths : CmdHash(p)
    \/ \E p \in SecPaths : CmdSign(p)
    \/ \E p \in SecPaths : CmdVerify(p)
    \/ \E command \in {"hash", "sign", "verify"}, p \in BadPaths :
          CmdBadPath(command, p)
    \/ \E p \in SecPaths, c \in Contents : ModifyArtifact(p, c)

NextDist ==
    \/ \E platform \in Platforms : GateVerify(platform)
    \/ \E ok \in BOOLEAN, k \in 0..Len(PkgOrder) : GatePublish(ok, k)
    \/ \E p \in Pkgs, c \in Contents : RebuildPackage(p, c)
    \/ \E p \in Pkgs, a \in DistAlgSet :
          \E f \in DigestFileValues(p, a) : WriteDigestFile(p, a, f)
    \/ \E p \in Pkgs : \E f \in SigFileValues : WriteSigFile(p, f)
    \/ \E k \in 0..MaxKey : WritePublicPem(k)
    \/ \E p \in Pkgs, c \in Contents, k \in 0..MaxKey : CreatePackage(p, c, k)

Next == NextSec \/ NextDist

Spec == Init /\ [][Next]_vars

\* manage_dist.py with the verification switches of DIST_CONFIG set either
\* way, the release key installed and the packages as built.
InitCfg ==
    /\ SecFresh
    /\ MoreFresh
    /\ pkgFile = [p \in Pkgs |-> 1]
    /\ digestFile = [p \in Pkgs |-> [a \in DistAlgSet |-> NoFile]]
    /\ sigFile = [p \in Pkgs |-> NoFile]
    /\ publicPem = 1
    /\ pack = NoPack
    /\ gate = GateIdle
    /\ cfg \in [enabled : BOOLEAN, signature : BOOLEAN]
    /\ suite = "dist"
    /\ artifact = [p \in SecPaths |-> 1]
    /\ built \in SUBSET Pkgs

NextCfg ==
    \/ \E platform \in Platforms : GateVerify(platform)
    \/ \E ok \in BOOLEAN, k \in 0..Len(PkgOrder) : GatePublish(ok, k)
    \/ \E p \in Pkgs, a \in DistAlgSet :
          \E f \in DigestFileValues(p, a) : WriteDigestFile(p, a, f)
    \/ \E p \in Pkgs : \E f \in SigFileValues : WriteSigFile(p, f)

SpecCfg == InitCfg /\ [][NextCfg]_vars

\* manage_security.py with files that cannot be read and a private key that
\* goes missing.
InitIO == Init /\ suite = "security"

NextIO ==
    \/ NextSec
    \/ \E p \in SecPaths, readable \in BOOLEAN : SetReadable(p, readable)
    \/ RemovePrivateKey

SpecIO == InitIO /\ [][NextIO]_vars

\* The keys command of manage_security.py with writes and chmods that can
\* fail, under any umask and with key files whose permission bits were
\* changed.
KeyFiles == {"private", "public"}

InitKeys == Init /\ suite = "security"

NextKeys ==
    \/ \E failAt \in KeyFailures, created \in CreatedModes :
          GenerateKeysAt(failAt, created)
    \/ \E file \in KeyFiles, mode \in CreatedModes : ChmodKey(file, mode)
    \/ \E p \in SecPaths : CmdSign(p)

SpecKeys == InitKeys /\ [][NextKeys]_vars

\* manage_dist.py publishing packages that were hashed and signed with the
\* installed key, while another process may rewrite a package file at any
\* moment.
ReleaseKey == 1

SignedRelease(p, c) ==
    File(B64Encode(PrivateSign(ReleaseKey, HexDigest("sha512", c),
                               DistPadding)))

InitRace ==
    /\ SecFresh
    /\ MoreFresh
    /\ suite = "dist"
    /\ artifact = [p \in SecPaths |-> 1]
    /\ cfg = ShippedCfg
    /\ built \in SUBSET Pkgs
    /\ pkgFile = [p \in Pkgs |-> 1]
    /\ digestFile = [p \in Pkgs |->
                       [a \in DistAlgSet |->
                           File(DigestLine(HexDigest(a, 1), p))]]
    /\ sigFile = [p \in Pkgs |-> SignedRelease(p, 1)]
    /\ publicPem = ReleaseKey
    /\ pack = NoPack
    /\ gate = GateIdle

NextRace ==
    \/ \E platform \in Platforms : GateVerify(platform)
    \/ \E ok \in BOOLEAN, k \in 0..Len(PkgOrder) : GatePublish(ok, k)
    \/ \E p \in Pkgs, c \in Contents : TamperInFlight(p, c)
    \/ \E p \in Pkgs, c \in Contents : RebuildPackage(p, c)

SpecRace == InitRace /\ [][NextRace]_vars

(***************************************************************************)
(* What is on disk for a package, stated without the verifier.             *)
(***************************************************************************)
Range(seq) == {seq[i] : i \in 1..Len(seq)}

DigestMissing(p) == \E a \in DistAlgSet : ~Exists(digestFile[p][a])
DigestDiffers(p, a) ==
    /\ Exists(digestFile[p][a])
    /\ FirstWord(Read(digestFile[p][a])) # HexDigest(a, pkgFile[p])
SigMissing(p) == ~Exists(sigFile[p])
SigGood(p) ==
    /\ Exists(sigFile[p])
    /\ Exists(digestFile[p]["sha512"])
    /\ publicPem # 0
    /\ B64Decode(Read(sigFile[p])) =
          PrivateSign(publicPem, FirstWord(Read(digestFile[p]["sha512"])),
                      DistPadding)
Defect(p) ==
    \/ DigestMissing(p)
    \/ \E a \in DistAlgSet : DigestDiffers(p, a)
    \/ SigMissing(p)
    \/ ~SigGood(p)

GateRan == gate.pc # "idle"
Uploaded == UNION {gate.uploaded[ch] : ch \in ChannelSet}
ResultOf(p) == {gate.results[i] : i \in {j \in 1..Len(gate.results) :
                                           gate.results[j].pkg = p}}

(***************************************************************************)
(* C1  Gate atomicity: when a publish command has run over a batch in      *)
(* which at least one package has a missing digest file, a digest that     *)
(* does not match, a missing signature or an invalid one, the command has  *)
(* returned 1 and no publish function was called for any package, the      *)
(* packages that verify included.                                          *)
(***************************************************************************)
C1_GateAtomicity ==
    (GateRan /\ \E p \in Range(gate.batch) : Defect(p))
        => /\ gate.pc = "done"
           /\ gate.exit = 1
           /\ gate.calls = <<>>
           /\ Uploaded = {}

\* A batch of two, the first package in order verifies and the second does
\* not: the command is blocked.
C1_Witness ==
    /\ gate.pc = "done"
    /\ Len(gate.batch) = 2
    /\ ~Defect(gate.batch[1])
    /\ Defect(gate.batch[2])
    /\ gate.exit = 1
    /\ Len(gate.results) = 2

(***************************************************************************)
(* C2  Lifecycle order.  As claimed: under every setting of the            *)
(* verification switches, a package a publish function has sent was        *)
(* verified in the same publish command (each digest recomputed and        *)
(* matched, the signature checked).                                        *)
(***************************************************************************)
FullyVerified(r) ==
    /\ r.out = Valid
    /\ \A a \in DistAlgSet : Step("compare", a) \in Range(r.steps)
    /\ Step("verify_signature", "") \in Range(r.steps)

PublishedWereVerified ==
    \A p \in Uploaded : \E r \in ResultOf(p) : FullyVerified(r)

C2_AsClaimed == PublishedWereVerified

\* C2 as amended: with the verification switches as shipped (enabled and
\* signature both True), a package a publish function has sent was verified
\* in the same publish command; and while a publish command runs, a package
\* sent to a channel stays sent.
StaysPublished ==
    gate.pc = "publish" =>
        \A ch \in ChannelSet : gate.uploaded[ch] \subseteq gate'.uploaded[ch]

C2_Lifecycle ==
    /\ [](cfg = ShippedCfg => PublishedWereVerified)
    /\ [][StaysPublished]_vars

\* A second channel fails after the first one published the whole batch of
\* two verified packages.
C2_Witness ==
    /\ cfg = ShippedCfg
    /\ gate.pc = "done"
    /\ Len(gate.calls) = 2
    /\ gate.exit = 1
    /\ Cardinality(gate.uploaded[gate.calls[1].channel]) = 2
    /\ PublishedWereVerified

(***************************************************************************)
(* What is on disk for a file of manage_security.py, stated without the    *)
(* verifier.                                                               *)
(***************************************************************************)
StoredHashes(p) == hashesDir[Basename(p)]
StoredSig(p) == sigDir[Basename(p)]
Verified(p) == last.cmd = "verify" /\ last.path = p

\* The stored digest set is the one of other bytes than the file holds.
SecDigestsStale(p) ==
    /\ Exists(StoredHashes(p))
    /\ \E c \in Contents :
          c # artifact[p] /\ Read(StoredHashes(p)) = CalculateHashes(c)
SecDigestsMatch(p) ==
    /\ Exists(StoredHashes(p))
    /\ Read(StoredHashes(p)) = CalculateHashes(artifact[p])
DistDigestsStale(p) ==
    \E c \in Contents :
        /\ c # pkgFile[p]
        /\ \A a \in DistAlgSet :
              digestFile[p][a] = File(DigestLine(HexDigest(a, c), p))
DistDigestsMatch(p) ==
    \A a \in DistAlgSet : Exists(digestFile[p][a]) /\ ~DigestDiffers(p, a)

(***************************************************************************)
(* C3  Tamper detection.  As claimed: whatever the file name, verifying a  *)
(* file whose bytes changed after its digests were stored reports          *)
(* HashMismatch for sha256, the first algorithm.                           *)
(***************************************************************************)
DistTamperDetected ==
    \A r \in Range(gate.results) :
        DistDigestsStale(r.pkg) => r.out = HashMismatch("sha256")

C3_AsClaimed ==
    /\ \A p \in SecPaths :
          (Verified(p) /\ SecDigestsStale(p))
              => last.outcome = HashMismatch("sha256")
    /\ DistTamperDetected

\* C3 as amended: verifying a file whose bytes changed after its digests
\* were stored reports HashMismatch for sha256 when the file is one the
\* verifier looks at: a name ending in one of the configured extensions for
\* verify_file, a collected package for verify_packages.
C3_TamperDetected ==
    /\ \A p \in SecPaths :
          (Verified(p) /\ HasCoveredExtension(p) /\ SecDigestsStale(p))
              => /\ last.outcome = HashMismatch("sha256")
                 /\ last.exit = 1
    /\ DistTamperDetected

C3_Witness ==
    /\ Verified(GameRom)
    /\ SecDigestsStale(GameRom)
    /\ last.outcome = HashMismatch("sha256")

(***************************************************************************)
(* C4  Round trip: after keys, hash A and sign A in this order, with A     *)
(* not modified in between, verify A returns Valid and exits 0.            *)
(***************************************************************************)
C4_RoundTrip ==
    \A p \in SecPaths :
        (Verified(p) /\ rt[p] = 3)
            => last.outcome = Valid /\ last.exit = 0

C4_Witness ==
    /\ Verified(GameRom)
    /\ rt[GameRom] = 3
    /\ Step("verify_signature", "") \in Range(last.steps)
    /\ last.exit = 0

(***************************************************************************)
(* C5  Key mismatch.  As claimed: verifying a file whose stored signature  *)
(* was made with another key pair than the persisted public key fails,     *)
(* and with SignatureInvalid when the stored digests match.                *)
(***************************************************************************)
StaleSig(p) ==
    /\ Exists(StoredSig(p))
    /\ keyDir.public # 0
    /\ Read(StoredSig(p)).key # keyDir.public

KeyMismatchRejected(p) ==
    (Verified(p) /\ StaleSig(p))
        => /\ last.exit = 1
           /\ SecDigestsMatch(p) => last.outcome = SignatureInvalid

Compared(steps) == SelectSeq(steps, LAMBDA st : st.op = "compare")

FailFast(steps, out, algs, Matches(_)) ==
    LET c == Compared(steps)
        sig == Step("verify_signature", "")
    IN  /\ Len(c) <= Len(algs)
        /\ \A i \in 1..Len(c) :
              /\ c[i].alg = algs[i]
              /\ i < Len(c) => Matches(c[i].alg)
        /\ out.kind = "HashMismatch"
              => /\ steps # <<>>
                 /\ steps[Len(steps)] = Step("compare", out.alg)
                 /\ ~Matches(out.alg)
        /\ (\E i \in 1..Len(c) : ~Matches(c[i].alg))
              => out.kind = "HashMismatch" /\ sig \notin Range(steps)
        /\ sig \in Range(steps)
              => /\ Len(c) = Len(algs)
                 /\ \A i \in 1..Len(algs) : Matches(algs[i])
                 /\ \A i, j \in 1..Len(steps) :
                       (steps[i].op = "compare" /\ steps[j] = sig) => i < j

SecMatches(p, a) ==
    /\ a \in DOMAIN Read(StoredHashes(p))
    /\ Read(StoredHashes(p))[a] = HexDigest(a, artifact[p])

C6_HashThenSignature ==
    /\ \A p \in SecPaths :
          (Verified(p) /\ Exists(StoredHashes(p)))
              => FailFast(last.steps, last.outcome, Algorithms,
                          LAMBDA a : SecMatches(p, a))
    /\ \A r \in Range(gate.results) :
          FailFast(r.steps, r.out, DistAlgorithms,
                   LAMBDA a : Exists(digestFile[r.pkg][a])
                              /\ ~DigestDiffers(r.pkg, a))

\* sha256 matches, sha512 does not: both were compared, in this order, and
\* the call ended there.
C6_Witness ==
    \E r \in Range(gate.results) :
        /\ r.out = HashMismatch("sha512")
        /\ Compared(r.steps) = <<Step("compare", "sha256"),
                                 Step("compare", "sha512")>>
        /\ Exists(sigFile[r.pkg])

(***************************************************************************)
(* C7  Missing metadata.  As claimed: verifying a file that has no stored  *)
(* signature, or no stored digest set, reports MissingMetadata (stated     *)
(* for the files the verifier looks at, with the public key in place).     *)
(***************************************************************************)
NoDigestFiles(p) == \A a \in DistAlgSet : ~Exists(digestFile[p][a])

Work == {"calculate_hashes", "digest", "compare", "verify_signature"}
NoWorkDone(steps) == \A i \in 1..Len(steps) : steps[i].op \notin Work

C9_AsClaimed ==
    GateRan =>
        /\ Len(gate.results) = Len(gate.batch)
        /\ \A p \in Range(gate.batch) :
              Defect(p) => \E r \in ResultOf(p) : r.out # Valid

\* The reason reported for a package is the one its files give.
ReasonFits(r) ==
    /\ r.out = MissingMetadata => DigestMissing(r.pkg) \/ SigMissing(r.pkg)
    /\ r.out.kind = "HashMismatch" => DigestDiffers(r.pkg, r.out.alg)
    /\ r.out = SignatureInvalid => Exists(sigFile[r.pkg]) /\ ~SigGood(r.pkg)
    /\ r.out = Raised => publicPem = 0
    /\ r.out = Valid <=> ~Defect(r.pkg)

\* C9 as amended: the gate verifies the packages in batch order up to the
\* first one that fails and returns there; the packages before it are
\* valid, the ones after it are not looked at, and a blocked release
\* reports this first failing package with its reason, and no other.
C9_FirstFailureOnly ==
    GateRan =>
        LET n == Len(gate.results) IN
        /\ n <= Len(gate.batch)
        /\ \A i \in 1..n :
              /\ gate.results[i].pkg = gate.batch[i]
              /\ ReasonFits(gate.results[i])
              /\ i < n => gate.results[i].out = Valid
        /\ n < Len(gate.batch) => n > 0 /\ gate.results[n].out # Valid
        /\ gate.exit = 1 /\ gate.calls = <<>>
              => n > 0 /\ gate.results[n].out # Valid

\* Both packages of the batch fail; only the first is reported.
C9_Witness ==
    /\ gate.pc = "done"
    /\ Len(gate.batch) = 2
    /\ \A p \in Range(gate.batch) : Defect(p)
    /\ Len(gate.results) = 1
    /\ gate.results[1].out = SignatureInvalid

(***************************************************************************)
(* C10 Channels.  As claimed: when every package is valid, the publish     *)
(* function of each requested channel is called.                           *)
(***************************************************************************)
C10_AsClaimed ==
    (gate.pc = "done" /\ gate.requested # <<>> /\ gate.batch # <<>>)
        => Len(gate.calls) = Len(gate.requested)

\* C10 as amended: when every package is valid, the publish functions of
\* the requested channels are called in the order github, sourceforge,
\* itch until one of them fails, which ends the command with 1 without
\* calling the channels after it; what the channels called before it have
\* published stays published.
C10_ChannelsInOrder ==
    LET n == Len(gate.calls) IN
    /\ n <= Len(gate.requested)
    /\ n > 0 => \A i \in 1..Len(gate.results) : ~Defect(gate.results[i].pkg)
    /\ \A i \in 1..n :
          /\ gate.calls[i].channel = gate.requested[i]
          /\ i < n => gate.calls[i].ok
          /\ gate.calls[i].ok
                => gate.uploaded[gate.calls[i].channel] = Range(gate.batch)
    /\ \A ch \in ChannelSet :
          gate.uploaded[ch] # {} => \E i \in 1..n : gate.calls[i].channel = ch
    /\ (gate.pc = "done" /\ gate.requested # <<>>)
          => /\ n > 0
             /\ gate.calls[n].ok => n = Len(gate.requested) /\ gate.exit = 0
             /\ ~gate.calls[n].ok => gate.exit = 1
    /\ gate.pc = "publish" => n < Len(gate.requested)

\* publish all: github published the two packages, sourceforge failed,
\* itch was not called.
C10_Witness ==
    /\ gate.pc = "done"
    /\ gate.requested = Channels
    /\ Len(gate.calls) = 2
    /\ gate.calls[1].ok /\ ~gate.calls[2].ok
    /\ Cardinality(gate.uploaded["github"]) = 2
    /\ gate.uploaded["itch"] = {}
    /\ gate.exit = 1

(***************************************************************************)
(* C11  Signing invariant: whenever a signing workflow has written a       *)
(* signature, the signed digest is the one of the bytes the artifact holds *)
(* at that moment, computed by the workflow itself and not taken from the  *)
(* stored digests.  sign <file> of manage_security.py and create <format>  *)
(* of manage_package.py are the signing workflows.                         *)
(***************************************************************************)
Signed(p) == last.cmd = "sign" /\ last.path = p /\ last.exit = 0

C11_SigningInvariant ==
    /\ \A p \in SecPaths :
          Signed(p) =>
              /\ Exists(StoredSig(p))
              /\ Read(StoredSig(p)) = Read(last.call.value)
              /\ Read(StoredSig(p)).msg = RawDigest("sha512", artifact[p])
    /\ (pack.cmd = "create" /\ pack.signed # <<>>) =>
          /\ pkgFile[Read(pack.pkg)] = pack.bytes
          /\ B64Decode(Read(pack.signed)).msg.of = pack.bytes

\* A file was signed while the digests stored for it were those of other
\* bytes.
C11_Witness ==
    /\ Signed(GameRom)
    /\ SecDigestsStale(GameRom)

(***************************************************************************)
(* C12  As claimed: every signature a verifier of the repository accepts   *)
(* and every signature a signer writes is one over the raw SHA-512 digest  *)
(* of the artifact, made with the padding of sign_file (PSS, MGF1 with     *)
(* SHA-512, salt length 64).                                               *)
(***************************************************************************)
OverSha512(sig, c) ==
    /\ sig.msg = RawDigest("sha512", c)
    /\ sig.pad = SecPadding

C12_AsClaimed ==
    /\ \A p \in SecPaths :
          (Verified(p) /\ last.outcome = Valid /\ HasCoveredExtension(p))
              => OverSha512(Read(StoredSig(p)), artifact[p])
    /\ \A p \in SecPaths :
          Signed(p) => OverSha512(Read(StoredSig(p)), artifact[p])
    /\ \A r \in Range(gate.results) :
          (r.out = Valid /\ Step("verify_signature", "") \in Range(r.steps))
              => OverSha512(B64Decode(Read(sigFile[r.pkg])), pkgFile[r.pkg])
    /\ (pack.cmd = "create" /\ pack.signed # <<>>)
          => OverSha512(B64Decode(Read(pack.signed)), pack.bytes)

(***************************************************************************)
(* C13  Exit code of verify.  As claimed: verify <file> exits 0 exactly    *)
(* when the stored digests are present and match and the stored signature  *)
(* is present and valid, whatever the file is called; a path that is no    *)
(* file and a missing argument exit 1.                                     *)
(***************************************************************************)
FullyValid(p) ==
    /\ p \notin unreadable
    /\ SecDigestsMatch(p)
    /\ Exists(StoredSig(p))
    /\ keyDir.public # 0
    /\ PublicVerify(keyDir.public, Read(StoredSig(p)),
                    RawDigest("sha512", artifact[p]), SecPadding)

BadPathExits1 ==
    (last.cmd = "verify" /\ last.path \in BadPaths) => last.exit = 1

C13_AsClaimed ==
    /\ \A p \in SecPaths : Verified(p) => (last.exit = 0 <=> FullyValid(p))
    /\ BadPathExits1

\* C13 as amended: for a file whose name ends with a configured extension,
\* verify exits 0 exactly when the outcome is Valid, that is when the stored
\* digests are present and match and the stored signature is present and
\* valid, and 1 otherwise; for a file with any other name it exits 0 without
\* checking anything; a path that is no file and a missing argument exit 1.
C13_ExitCode ==
    /\ \A p \in SecPaths :
          Verified(p) =>
              /\ last.exit \in {0, 1}
              /\ IF HasCoveredExtension(p)
                 THEN /\ last.exit = 0 <=> FullyValid(p)
                      /\ last.exit = 0 <=> last.outcome = Valid
                 ELSE last.exit = 0
    /\ BadPathExits1

\* verify exits 1 on a file with a configured extension whose digests and
\* signature are in order but which cannot be read.
C13_Witness ==
    /\ Verified(GameRom)
    /\ last.exit = 1
    /\ GameRom \in unreadable
    /\ SecDigestsMatch(GameRom)
    /\ Exists(StoredSig(GameRom))
    /\ keyDir.public # 0

(***************************************************************************)
(* C14  Exceptions of the verifier.  As claimed: a verification-logic      *)
(* failure is returned, and an infrastructure failure (a key file or an    *)
(* artifact that cannot be read) leaves the verifier as an exception       *)
(* instead of a verdict.                                                   *)
(***************************************************************************)
LogicFailure(out) ==
    out.kind \in {"HashMismatch", "SignatureInvalid", "MissingMetadata"}

GateRaised == \E r \in Range(gate.results) : r.out = Raised

C14_AsClaimed ==
    /\ \A p \in SecPaths :
          Verified(p) =>
              /\ LogicFailure(last.outcome) => ~last.call.raised
              /\ last.outcome = Raised => last.call.raised
    /\ (GateRan /\ GateRaised) => gate.call.raised

\* C14 as amended: the verifier never raises.  A verification-logic failure
\* and an infrastructure failure alike are caught inside verify_file and
\* verify_packages and answered with False, so that verify exits 1 and the
\* publish command returns 1; the two are told apart by the printed message
\* only.
C14_NeverRaises ==
    /\ \A p \in SecPaths :
          Verified(p) =>
              /\ ~last.call.raised
              /\ (LogicFailure(last.outcome) \/ last.outcome = Raised)
                    => (last.call.value = <<FALSE>> /\ last.exit = 1)
    /\ GateRan =>
          /\ ~gate.call.raised
          /\ (\E r \in Range(gate.results) :
                  LogicFailure(r.out) \/ r.out = Raised)
                => (gate.call.value = <<FALSE>> /\ gate.exit = 1)

\* verify on a file whose stored digests match, with no public key file.
C14_Witness ==
    /\ Verified(GameRom)
    /\ SecDigestsMatch(GameRom)
    /\ keyDir.public = 0
    /\ last.outcome = Raised
    /\ last.exit = 1

(***************************************************************************)
(* C15  Digest of an unreadable artifact.  As claimed: when the artifact   *)
(* cannot be opened or read, the digest operation fails with an I/O error  *)
(* that propagates to its caller.                                          *)
(***************************************************************************)
Hashed(p) == last.cmd = "hash" /\ last.path = p

C15_AsClaimed ==
    \A p \in SecPaths : (Hashed(p) /\ p \in unreadable) => last.call.raised

HashResult ==
    \A p \in SecPaths :
        Hashed(p) =>
            /\ ~last.call.raised
            /\ IF p \in unreadable
               THEN last.call.value = <<EmptyDict>> /\ last.exit = 1
               ELSE /\ DOMAIN Read(last.call.value) = AlgSet
                    /\ last.exit = 0
                    /\ StoredHashes(p) = last.call.value

FailedHashStoresNothing ==
    (last'.cmd = "hash" /\ last'.exit = 1) => hashesDir' = hashesDir

\* C15 as amended: when the artifact cannot be opened or read,
\* calculate_hashes catches the I/O error and returns the empty digest set,
\* never a partial one and without retry; the hash command then exits 1 and
\* leaves the stored digests as they were.  A readable artifact yields a
\* digest for every configured algorithm.
C15_EmptyOnError == []HashResult /\ [][FailedHashStoresNothing]_vars

\* hash on an unreadable file whose digests were stored earlier.
C15_Witness ==
    /\ Hashed(GameRom)
    /\ GameRom \in unreadable
    /\ Exists(StoredHashes(GameRom))
    /\ last.exit = 1

(***************************************************************************)
(* C16  Signing without a private key.  sign fails when the private key    *)
(* file is absent (or the artifact cannot be read for digesting): nothing  *)
(* is returned, the command exits 1, no signature file is created and a    *)
(* signature stored earlier is left as it was.                             *)
(***************************************************************************)
SignFails ==
    \A p \in SecPaths :
        (last.cmd = "sign" /\ last.path = p
            /\ (keyDir.private = 0 \/ p \in unreadable))
        => (last.exit = 1 /\ last.call = NoCall)

FailedSignStoresNothing ==
    (last'.cmd = "sign" /\ last'.exit = 1) => sigDir' = sigDir

C16_SignFailure == []SignFails /\ [][FailedSignStoresNothing]_vars

\* sign fails for want of the private key while a signature is stored.
C16_Witness ==
    /\ last.cmd = "sign"
    /\ last.path = GameRom
    /\ last.exit = 1
    /\ keyDir.private = 0
    /\ Exists(StoredSig(GameRom))

(***************************************************************************)
(* C17  Key file permissions.  After the keys command succeeds the private *)
(* key file has mode 0600 and the public key file mode 0644, whatever the  *)
(* umask and whatever modes files of an earlier generation had, and the    *)
(* two files hold the halves of the pair just generated.                   *)
(***************************************************************************)
KeysGenerated == last.cmd = "keys" /\ last.exit = 0

C17_KeyModes ==
    KeysGenerated =>
        /\ keyMode = [private |-> PrivateMode, public |-> PublicMode]
        /\ keyDir.private = keyDir.public
        /\ keyDir.private # 0

\* A second generation, over key files that already existed.
C17_Witness == KeysGenerated /\ keyDir.private >= 2

(***************************************************************************)
(* C18  Determinism of hashing.  Two hash commands on the same file, one   *)
(* right after the other so that its bytes are the same, return the same   *)
(* digests, and the digest of each algorithm is the one the loop would     *)
(* produce with the algorithms taken in the opposite order.                *)
(***************************************************************************)
HashedOk(p) == Hashed(p) /\ last.exit = 0

OrderIndependent ==
    \A p \in SecPaths :
        HashedOk(p) =>
            \A a \in AlgSet :
                Read(last.call.value)[a]
                    = HashesIn(Reverse(Algorithms), artifact[p])[a]

SameTwice ==
    \A p \in SecPaths :
        (HashedOk(p) /\ HashedOk(p)') => last'.call = last.call

VerifyStep == last'.cmd = "verify"
HashStep == last'.cmd = "hash"
GateVerifyStep == gate'.pc # "idle" /\ gate'.calls = <<>>

VerifyKeepsFiles ==
    VerifyStep => UNCHANGED <<artifact, hashesDir, sigDir, keyDir, keyMode>>

HashKeepsFiles ==
    HashStep => UNCHANGED <<artifact, sigDir, keyDir, keyMode>>

GateVerifyKeepsFiles ==
    GateVerifyStep =>
        UNCHANGED <<built, pkgFile, digestFile, sigFile, publicPem>>

C19_ReadOnly ==
    /\ [][VerifyKeepsFiles]_vars
    /\ [][HashKeepsFiles]_vars
    /\ [][GateVerifyKeepsFiles]_vars

\* A verify command that found the stored digests stale, with a signature
\* stored: the stale digests are still there.
C19_Witness ==
    /\ Verified(GameRom)
    /\ last.outcome = HashMismatch("sha256")
    /\ SecDigestsStale(GameRom)
    /\ Exists(StoredSig(GameRom))

(***************************************************************************)
(* C20  Persisted layout.  A location is a directory, the base name of the *)
(* file it belongs to, and what is appended to that name.                  *)
(***************************************************************************)
HashPath(p) ==
    [dir |-> "security/hashes", base |-> Basename(p), suffix |-> "json"]
SigPath(p) ==
    [dir |-> "security/signatures", base |-> Basename(p), suffix |-> "sig"]
Adjacent(p, suffix) == [dir |-> p.dir, base |-> Basename(p), suffix |-> suffix]

\* The file at a location, NoFile where nothing has written one.
FileAt(path) ==
    IF path.dir = "security/hashes" /\ path.suffix = "json"
          /\ path.base \in SecBases
    THEN hashesDir[path.base]
    ELSE IF path.dir = "security/signatures" /\ path.suffix = "sig"
               /\ path.base \in SecBases
    THEN sigDir[path.base]
    ELSE IF \E p \in Pkgs : p.dir = path.dir /\ Basename(p) = path.base
    THEN LET p == CHOOSE q \in Pkgs :
                      q.dir = path.dir /\ Basename(q) = path.base
         IN  IF path.suffix \in DistAlgSet THEN digestFile[p][path.suffix]
             ELSE IF path.suffix = "sig" THEN sigFile[p]
             ELSE NoFile
    ELSE NoFile

\* C20 as claimed: after a successful hash command the file
\* <artifact>.<algorithm> exists for each algorithm and holds the hex digest
\* followed by the file name, and after a successful sign command the file
\* <artifact>.sig exists.
C20_AsClaimed ==
    \A p \in SecPaths :
        /\ HashedOk(p) =>
              \A a \in AlgSet :
                  /\ Exists(FileAt(Adjacent(p, a)))
                  /\ Read(FileAt(Adjacent(p, a)))
                        = DigestLine(HexDigest(a, artifact[p]), p)
        /\ Signed(p) => Exists(FileAt(Adjacent(p, "sig")))

HashCommandLayout ==
    \A p \in SecPaths :
        HashedOk(p) =>
            /\ Exists(FileAt(HashPath(p)))
            /\ \A a \in AlgSet :
                  Read(FileAt(HashPath(p)))[a] = HexDigest(a, artifact[p])

SignCommandLayout ==
    \A p \in SecPaths :
        Signed(p) =>
            /\ Exists(FileAt(SigPath(p)))
            /\ Read(FileAt(SigPath(p))) = Read(last.call.value)

VerifyFileReads ==
    \A p \in SecPaths :
        (Verified(p) /\ HasCoveredExtension(p)) =>
            /\ ~Exists(FileAt(HashPath(p))) => last.outcome = MissingMetadata
            /\ last.outcome = Valid =>
                  /\ Exists(FileAt(HashPath(p)))
                  /\ Exists(FileAt(SigPath(p)))

VerifyPackagesReads ==
    GateRan =>
        \A r \in Range(gate.results) :
            r.out = Valid =>
                /\ \A a \in DistAlgSet : Exists(FileAt(Adjacent(r.pkg, a)))
                /\ Exists(FileAt(Adjacent(r.pkg, "sig")))

PackageLayout ==
    pack.cmd = "create" =>
        \A a \in DistAlgSet :
            Read(FileAt(Adjacent(Read(pack.pkg), a)))
                = <<HexDigest(a, pack.bytes), Basename(Read(pack.pkg))>>

\* C20 as amended: after a successful hash command the file
\* security/hashes/<file name>.json exists and holds, for each algorithm of
\* the configured set, the hex digest of the artifact; after a successful
\* sign command the file security/signatures/<file name>.sig exists and
\* holds the signature; these are the locations verify_file reads.  The
\* verifier of manage_dist reads <package>.<algorithm> (hex digest followed
\* by the file name, as the create command of manage_package writes it) and
\* <package>.sig next to the package.
C20_Layout ==
    /\ HashCommandLayout
    /\ SignCommandLayout
    /\ VerifyFileReads
    /\ VerifyPackagesReads
    /\ PackageLayout

\* hash and sign both succeeded on one file, the sign command last.
C20_Witness ==
    /\ Signed(GameRom)
    /\ Exists(FileAt(SigPath(GameRom)))
    /\ Exists(FileAt(HashPath(GameRom)))
    /\ SecDigestsMatch(GameRom)

(***************************************************************************)
(* C22  Extension bypass.  For a path whose name ends with none of the     *)
(* configured extensions verify_file returns True and verify exits 0       *)
(* without reading a stored digest, a signature or a key: whether or not   *)
(* digests are stored, current or stale, whether or not a signature or a   *)
(* public key exists, and whether or not the file can be read.             *)
(***************************************************************************)
C22_ExtensionBypass ==
    \A p \in SecPaths :
        (Verified(p) /\ p.ext \notin Extensions) =>
            /\ last.call = Returned(TRUE)
            /\ last.exit = 0
            /\ last.outcome = Valid
            /\ last.steps = <<>>

\* verify on demo.tar.gz, which cannot be read and whose stored digests are
\* those of other bytes.
C22_Witness ==
    /\ Verified(DemoTarGz)
    /\ SecDigestsStale(DemoTarGz)
    /\ DemoTarGz \in unreadable
    /\ last.exit = 0

(***************************************************************************)
(* C25  Key-pair consistency.  As claimed: after any sequence of           *)
(* generate_keys calls, also ones that stop between two file writes, the   *)
(* persisted public key is the public half of the persisted private key:   *)
(* a signature made with the private key file verifies against the public  *)
(* key file.                                                               *)
(***************************************************************************)
BothKeysPersisted == keyDir.private # 0 /\ keyDir.public # 0

ProbeDigest == RawDigest("sha512", 1)

C25_AsClaimed ==
    BothKeysPersisted =>
        PublicVerify(keyDir.public,
                     PrivateSign(keyDir.private, ProbeDigest, SecPadding),
                     ProbeDigest, SecPadding)

(***************************************************************************)
(* C26  Permissions of the private key.  As claimed: in every state that   *)
(* generate_keys leaves or passes through, a private key file that holds   *)
(* key material has mode 0600.                                             *)
(***************************************************************************)
C26_AsClaimed ==
    (last.cmd = "keys" /\ keyDir.private # 0) => keyMode.private = PrivateMode

(***************************************************************************)
(* C23  Packaging to distribution.  As claimed: with one key pair in       *)
(* place for both scripts, the create command of manage_package signs the  *)
(* package it built, and the digest files and the signature it wrote are   *)
(* accepted by verify_packages of manage_dist while the package is as      *)
(* built.                                                                  *)
(***************************************************************************)
PackagedWithKeys ==
    /\ pack.cmd = "create"
    /\ pack.key # 0
    /\ publicPem = pack.key

C23_AsClaimed ==
    PackagedWithKeys =>
        /\ pack.exit = 0
        /\ Exists(pack.signed)
        /\ sigFile[Read(pack.pkg)] = pack.signed
        /\ VerifyPackage(Read(pack.pkg)).out = Valid

(***************************************************************************)
(* C27  Empty batch.  When no package file is found collect_packages       *)
(* still returns a dict with a key per platform, so the publish command    *)
(* passes the `if not packages` test, verify_packages returns True with    *)
(* nothing verified, and the publish functions of the requested channels   *)
(* are called as they are for a verified batch: the first one always, each *)
(* later one when the one before it returned True.                         *)
(***************************************************************************)
EmptyBatchRun == GateRan /\ built = {}

C24_AsClaimed ==
    \A w \in gate.wire :
        /\ w.pkg \in DOMAIN gate.checked
        /\ w.bundle = gate.checked[w.pkg]

(***************************************************************************)
(* manage_update.py                                                        *)
(***************************************************************************)
UpdAlgorithms == <<"sha256", "sha512">>
UpdAlgSet == {UpdAlgorithms[i] : i \in 1..Len(UpdAlgorithms)}
UpdCfg == [enabled |-> TRUE, signature |-> TRUE]
BackupEnabled == TRUE
MaxBackups == 5

\* The names backup_<timestamp> that the clock can give; the bound of the
\* model on them.
MaxStamp == 6
Stamps == 1..MaxStamp

\* The package download_update stores in update/temp.
UpdPackage == [dir |-> "update/temp", name |-> "mega_emu", ext |-> ".AppImage"]

\* The texts a release can carry as <package>.sig.
SigTexts ==
    {B64Encode(PrivateSign(k, HexDigest("sha512", 1), DistPadding)) :
        k \in KeyIds}

\* What download_update leaves on disk when it succeeds: the package, a
\* digest file per algorithm and the signature file, all as the server
\* sent them.
Downloads ==
    {[bytes |-> c,
      digests |-> [a \in UpdAlgSet |->
                      File(DigestLine(HexDigest(a, d[a]), UpdPackage))],
      sig |-> File(s)] :
        c \in Contents, d \in [UpdAlgSet -> Contents], s \in SigTexts}

\* The loop of verify_package over the algorithms, from algorithm i on.
RECURSIVE UpdCheckDigests(_, _)
UpdCheckDigests(i, b) ==
    IF i > Len(UpdAlgorithms) THEN TRUE
    ELSE LET a == UpdAlgorithms[i] IN
         IF ~Exists(b.digests[a]) THEN FALSE
         ELSE IF HexDigest(a, b.bytes) # FirstWord(Read(b.digests[a]))
              THEN FALSE
              ELSE UpdCheckDigests(i + 1, b)

\* Mutant: the signature is verified against the release key, as
\* manage_dist does.
UpdVerifyPackage_CheckSig(b) ==
    IF ~UpdCfg.enabled THEN TRUE
    ELSE IF ~UpdCheckDigests(1, b) THEN FALSE
    ELSE IF UpdCfg.signature /\ ~Exists(b.sig) THEN FALSE
    ELSE ~UpdCfg.signature
            \/ PublicVerify(ReleaseKey, B64Decode(Read(b.sig)),
                            FirstWord(Read(b.digests["sha512"])), DistPadding)

\* verify_package: the signature file is read and nothing is done with it.
UpdVerifyPackage(b) ==
    IF ~UpdCfg.enabled THEN TRUE
    ELSE IF ~UpdCheckDigests(1, b) THEN FALSE
    ELSE IF UpdCfg.signature /\ ~Exists(b.sig) THEN FALSE
    ELSE TRUE

\* sorted(): the names in ascending order.
RECURSIVE SortedSeq(_)
SortedSeq(S) ==
    IF S = {} THEN <<>>
    ELSE LET m == CHOOSE x \in S : \A y \in S : x <= y IN
         <<m>> \o SortedSeq(S \ {m})

\* The while loop of create_backup: the first name is removed as long as
\* more than max_backups are left.
RECURSIVE Trim(_)
Trim(names) ==
    IF Len(names) > MaxBackups THEN Trim(Tail(names)) ELSE names

\* create_backup when the clock reads t: the path it returns (none when
\* backups are disabled, when backup_<t> exists already or when copying
\* fails) and the backup_* directories it leaves.
CreateBackup(t, copyOk) ==
    IF ~BackupEnabled THEN [result |-> NoFile, dirs |-> backups]
    ELSE IF t \in backups THEN [result |-> NoFile, dirs |-> backups]
    ELSE IF ~copyOk THEN [result |-> NoFile, dirs |-> backups \cup {t}]
    ELSE LET kept == Trim(SortedSeq(backups \cup {t})) IN
         [result |-> File(t), dirs |-> {kept[i] : i \in 1..Len(kept)}]

\* backup
CmdBackup(t, copyOk) ==
    /\ suite = "update"
    /\ LET b == CreateBackup(t, copyOk) IN
       /\ backups' = b.dirs
       /\ upd' = [UpdIdle EXCEPT !.cmd = "backup",
                                 !.trace = <<"create_backup">>,
                                 !.exit = IF Exists(b.result) THEN 0 ELSE 1,
                                 !.made = b.result,
                                 !.removed = (backups \cup {t}) \ b.dirs]
    /\ UNCHANGED <<suite, secState, distState, proc>>

\* check_for_updates returns a version string or None.
NoVersion == 0
NewerVersion == 1

\* Mutant: install_update is called whatever verify_package returned.
UpdateRun_InstallUnverified(version, b, download, installOk) ==
    LET run == [UpdIdle EXCEPT !.cmd = "update", !.exit = 1,
                               !.trace = <<"check_for_updates">>]
    IN  IF version = NoVersion THEN run
        ELSE IF ~Exists(b.result)
        THEN [run EXCEPT !.trace = @ \o <<"create_backup">>]
        ELSE IF ~Exists(download)
        THEN [run EXCEPT !.trace = @ \o <<"create_backup", "download_update">>,
                         !.made = b.result]
        ELSE [run EXCEPT !.trace = @ \o <<"create_backup", "download_update",
                                          "verify_package", "install_update">>,
                         !.made = b.result,
                         !.package = download,
                         !.verdict = <<UpdVerifyPackage(Read(download))>>,
                         !.exit = IF installOk THEN 0 ELSE 1]

\* The update branch of main: each step runs when the one before it
\* returned a truthy value, and the first that does not makes main return 1.
UpdateRun(version, b, download, installOk) ==
    LET run == [UpdIdle EXCEPT !.cmd = "update", !.exit = 1,
                               !.trace = <<"check_for_updates">>]
    IN  IF version = NoVersion THEN run
        ELSE IF ~Exists(b.result)
        THEN [run EXCEPT !.trace = @ \o <<"create_backup">>]
        ELSE IF ~Exists(download)
        THEN [run EXCEPT !.trace = @ \o <<"create_backup", "download_update">>,
                         !.made = b.result]
        ELSE IF ~UpdVerifyPackage(Read(download))
        THEN [run EXCEPT !.trace = @ \o <<"create_backup", "download_update",
                                          "verify_package">>,
                         !.made = b.result,
                         !.package = download,
                         !.verdict = <<FALSE>>]
        ELSE [run EXCEPT !.trace = @ \o <<"create_backup", "download_update",
                                          "verify_package", "install_update">>,
                         !.made = b.result,
                         !.package = download,
                         !.verdict = <<TRUE>>,
                         !.exit = IF installOk THEN 0 ELSE 1]

\* update [channel]
CmdUpdate(version, t, copyOk, download, installOk) ==
    /\ suite = "update"
    /\ LET b == CreateBackup(t, copyOk) IN
       /\ upd' = UpdateRun(version, b, download, installOk)
       /\ backups' = IF version = NoVersion THEN backups ELSE b.dirs
    /\ UNCHANGED <<suite, secState, distState, proc>>

InitUpdate ==
    /\ SecFresh
    /\ MoreFresh
    /\ DistFresh
    /\ cfg = ShippedCfg
    /\ suite = "update"
    /\ artifact = [p \in SecPaths |-> 1]
    /\ built = {}

NextUpdate ==
    \/ \E t \in Stamps, copyOk \in BOOLEAN : CmdBackup(t, copyOk)
    \/ \E version \in {NoVersion, NewerVersion}, t \in Stamps,
          copyOk \in BOOLEAN, download \in {NoFile} \cup {File(d) : d \in Downloads},
          installOk \in BOOLEAN :
          CmdUpdate(version, t, copyOk, download, installOk)

SpecUpdate == InitUpdate /\ [][NextUpdate]_vars

(***************************************************************************)
(* C28  Update ordering.  The update command calls install_update only     *)
(* after check_for_updates returned a version, create_backup a path,       *)
(* download_update a package path and verify_package True for that         *)
(* package, in this order; a step that fails or returns None makes the     *)
(* command return 1 with none of the later steps run.                      *)
(***************************************************************************)
UpdateOrder ==
    <<"check_for_updates", "create_backup", "download_update",
      "verify_package", "install_update">>

Ran(step) == \E i \in 1..Len(upd.trace) : upd.trace[i] = step

C28_UpdateOrdering ==
    upd.cmd = "update" =>
        /\ Len(upd.trace) \in 1..Len(UpdateOrder)
        /\ upd.trace = SubSeq(UpdateOrder, 1, Len(upd.trace))
        /\ Ran("download_update") => Exists(upd.made)
        /\ Ran("verify_package") => Exists(upd.package)
        /\ Ran("install_update") => upd.verdict = <<TRUE>>
        /\ ~Ran("install_update") => upd.exit = 1
        /\ upd.exit = 0 => Ran("install_update")

\* An update that stopped at a package whose digests do not match.
C28_Witness ==
    /\ upd.cmd = "update"
    /\ upd.verdict = <<FALSE>>
    /\ upd.exit = 1
    /\ ~Ran("install_update")
    /\ Cardinality(backups) = MaxBackups

(***************************************************************************)
(* C29  The signature file is not checked.  The verdict of verify_package  *)
(* on a downloaded package is the one it would give with any other text    *)
(* in the existing <package>.sig; a package whose digest files match is    *)
(* accepted, and install_update is called for it, whoever signed it.       *)
(***************************************************************************)
DigestsMatch(b) ==
    \A a \in UpdAlgSet :
        /\ Exists(b.digests[a])
        /\ FirstWord(Read(b.digests[a])) = HexDigest(a, b.bytes)

BackupMade == Exists(upd.made) /\ Ran("create_backup")

C30_AsClaimed ==
    BackupMade =>
        /\ Cardinality(backups) <= MaxBackups
        /\ \A r \in upd.removed : \A k \in backups : r < k
        /\ Read(upd.made) \in backups

(***************************************************************************)
(* manage_security.py, two commands at a time.  Two processes each run one *)
(* hash or verify command on a path of its own; a step is what a command   *)
(* does to the files of security/hashes between two moments at which the   *)
(* other process can run.                                                  *)
(***************************************************************************)
BackupRom == [dir |-> "backup", name |-> "game", ext |-> ".rom"]
OtherRom == [dir |-> "roms", name |-> "other", ext |-> ".rom"]
ParPaths == {GameRom, BackupRom, OtherRom}
ParBases == {Basename(p) : p \in ParPaths}
ProcIds == {1, 2}

\* The digest file right after open(hash_path, 'w'): it exists and is empty.
Truncated == File(EmptyDict)

Other(i) == 3 - i

\* hash <file>, first part: calculate_hashes, then the digest file is opened
\* for writing.
ParHashOpen(i) ==
    /\ suite = "par"
    /\ proc.run[i].cmd = "hash"
    /\ proc.run[i].pc = "start"
    /\ hashesDir' = [hashesDir EXCEPT ![Basename(proc.run[i].path)] = Truncated]
    /\ proc' = [proc EXCEPT !.run[i].pc = "opened"]
    /\ UNCHANGED <<suite, artifact, sigDir, keyDir, keyMode, unreadable, last,
                   rt, distState, upd, backups>>

\* hash <file>, second part: json.dump writes the digests and main returns 0.
ParHashDump(i) ==
    /\ suite = "par"
    /\ proc.run[i].cmd = "hash"
    /\ proc.run[i].pc = "opened"
    /\ hashesDir' = [hashesDir EXCEPT ![Basename(proc.run[i].path)] =
                        File(CalculateHashes(artifact[proc.run[i].path]))]
    /\ proc' = [proc EXCEPT !.run[i].pc = "done", !.run[i].verdict = <<TRUE>>]
    /\ UNCHANGED <<suite, artifact, sigDir, keyDir, keyMode, unreadable, last,
                   rt, distState, upd, backups>>

\* verify <file>: the digest file is read once, the rest of verify_file
\* reads files no hash or verify command writes.
ParVerify(i) ==
    /\ suite = "par"
    /\ proc.run[i].cmd = "verify"
    /\ proc.run[i].pc = "start"
    /\ proc' = [proc EXCEPT !.run[i].pc = "done",
                            !.run[i].verdict =
                                VerifyFileCall(proc.run[i].path).value]
    /\ UNCHANGED <<suite, secState, distState, upd, backups>>

\* A signature file made by sign_file with key 1 over a file holding c.
ParSig(c) == File(PrivateSign(1, RawDigest("sha512", c), SecPadding))

InitPar ==
    /\ suite = "par"
    /\ artifact \in [ParPaths -> Contents]
    /\ hashesDir \in [ParBases ->
                        {NoFile} \cup {File(CalculateHashes(c)) : c \in Contents}]
    /\ sigDir \in [ParBases -> {NoFile, ParSig(1)}]
    /\ keyDir = [private |-> 1, public |-> 1]
    /\ keyMode = [private |-> PrivateMode, public |-> PublicMode]
    /\ unreadable = {}
    /\ last = Idle
    /\ rt = [p \in SecPaths |-> 0]
    /\ DistFresh
    /\ cfg = ShippedCfg
    /\ built = {}
    /\ upd = UpdIdle
    /\ backups = {}
    /\ \E c \in [ProcIds -> {"hash", "verify"}], p \in [ProcIds -> ParPaths] :
          /\ p[1] # p[2]
          /\ proc = [start |-> hashesDir,
                     run |-> [i \in ProcIds |->
                                 [cmd |-> c[i], path |-> p[i], pc |-> "start",
                                  verdict |-> <<>>]]]

NextPar ==
    \/ \E i \in ProcIds : ParHashOpen(i)
    \/ \E i \in ProcIds : ParHashDump(i)
    \/ \E i \in ProcIds : ParVerify(i)

SpecPar == InitPar /\ [][NextPar]_vars

(***************************************************************************)
(* C21  Independent artifacts.  As claimed: for two distinct paths, also   *)
(* two that share a base name, hash and verify commands run side by side   *)
(* leave the stored digests and return the verdicts that running them one  *)
(* after the other, in one order or the other, does, and a command on one  *)
(* path neither overwrites nor reads the stored digests of the other.      *)
(***************************************************************************)
\* One command run alone on the digest files dir: the files it leaves and
\* its verdict.
Alone(dir, r) ==
    IF r.cmd = "hash"
    THEN [dir |-> [dir EXCEPT ![Basename(r.path)] =
                      File(CalculateHashes(artifact[r.path]))],
          verdict |-> TRUE]
    ELSE [dir |-> dir,
          verdict |->
              \/ ~HasCoveredExtension(r.path)
              \/ /\ Exists(dir[Basename(r.path)])
                 /\ CompareHashes(1, Read(dir[Basename(r.path)]),
                                  CalculateHashes(artifact[r.path])).out = Valid
                 /\ CheckSignaturePart(r.path).out = Valid]

\* Process i first, then the other one.
OneAfterTheOther(i) ==
    LET first == Alone(proc.start, proc.run[i])
        second == Alone(first.dir, proc.run[Other(i)])
    IN  [dir |-> second.dir,
         verdicts |-> [j \in ProcIds |->
                          IF j = i THEN first.verdict ELSE second.verdict]]

BothDone == \A i \in ProcIds : proc.run[i].pc = "done"

SideBySide ==
    [dir |-> hashesDir,
     verdicts |-> [j \in ProcIds |-> Read(proc.run[j].verdict)]]

Serializable ==
    (suite = "par" /\ BothDone) =>
        \E i \in ProcIds : SideBySide = OneAfterTheOther(i)

\* A step of the command on one path leaves the digests stored for the
\* other path alone.
KeepsTheOthers ==
    suite = "par" =>
        \A i \in ProcIds :
            proc'.run[i] # proc.run[i] =>
                hashesDir'[Basename(proc.run[Other(i)].path)]
                    = hashesDir[Basename(proc.run[Other(i)].path)]

C21_AsClaimed == []Serializable /\ [][KeepsTheOthers]_vars
====
